---- MODULE Spec2Model ----
(***************************************************************************)
(* Sihara-Prak-Bot: a Telegram webhook bot relaying text to an OpenAI      *)
(* assistant, with one upstream thread per (chat, user) pair kept in the   *)
(* in-memory mapping `threads` and the file sihara_threads.json.           *)
(*                                                                         *)
(* The model follows the versioned build (src/unnamed/part_000).  One      *)
(* action of the model is one run-to-completion segment of the JavaScript  *)
(* event loop: the code between two awaits.  Texts are sequences of        *)
(* one-character strings.                                                  *)
(***************************************************************************)
EXTENDS Integers, Sequences, FiniteSets, TLC

VARIABLES
  proc,          \* position of the main module: boot, registering, listening, exited, crashed
  envOk,         \* the required environment variables are all present
  file,          \* ./sihara_threads.json: [exists, content]
  threads,       \* the in-memory mapping key -> stored value
  history,       \* upstream: history[t] is the message list of thread t, oldest first
  tasks,         \* tasks[u]: the async task of update u (position, locals, what it did)
  sent,          \* replies delivered through bot.sendMessage
  lastResolved,  \* lastResolved[k]: handle returned by the latest completed getOrCreateThread for k
  cleared        \* the file found at start held a reusable record for every key of
                 \* an earlier process (recorded in SpecStart, FALSE elsewhere)

vars == <<proc, envOk, file, threads, history, tasks, sent, lastResolved, cleared>>

----------------------------------------------------------------------------
(* Bounds of the model *)

MaxUpdates == 2
MaxLen == 4
MaxHistory == 6

(* Program constants *)

PROMPT_VERSION == "1.2"
ListLimit == 5
NoResponse == <<"No response.">>

(* The mention token `@${BOT_USERNAME}`, shortened to two characters *)
mention == <<"@", "B">>

Chars == {"@", "B", " ", "h"}
OldVersions == {"1.1"}
\* chat 1 is the private chat of user 1, chat 2 a group
ChatIds == {1, 2}
UserIds == {1}
\* pairs met only where getThreadKey is checked: a second participant of the
\* group, and a group and a participant whose ids put side by side read alike
OtherPairs == {<<2, 12>>, <<21, 2>>}
AllPairs == (ChatIds \X UserIds) \cup OtherPairs
ChatType(c) == IF c = 1 THEN "private" ELSE "group"
Updates == 1..MaxUpdates

----------------------------------------------------------------------------
(* String operations of the gate *)

RECURSIVE TrimLeft(_)
TrimLeft(s) ==
  IF s # <<>> /\ Head(s) = " " THEN TrimLeft(Tail(s)) ELSE s

RECURSIVE TrimRight(_)
TrimRight(s) ==
  IF s # <<>> /\ s[Len(s)] = " " THEN TrimRight(SubSeq(s, 1, Len(s) - 1)) ELSE s

\* String.prototype.trim
trim(s) == TrimRight(TrimLeft(s))

\* the positions at which m occurs in s
Occurrences(s, m) ==
  {i \in 1..(Len(s) - Len(m) + 1) : SubSeq(s, i, i + Len(m) - 1) = m}

\* String.prototype.includes
includes(s, m) == Occurrences(s, m) # {}

Least(S) == CHOOSE i \in S : \A j \in S : i <= j

\* String.prototype.replace(m, "") with a string pattern: the first occurrence only
replace(s, m) ==
  IF ~includes(s, m) THEN s
  ELSE LET i == Least(Occurrences(s, m))
       IN  SubSeq(s, 1, i - 1) \o SubSeq(s, i + Len(m), Len(s))

RECURSIVE SeqsUpTo(_, _)
SeqsUpTo(S, n) ==
  IF n = 0 THEN {<<>>}
  ELSE LET shorter == SeqsUpTo(S, n - 1)
       IN  shorter \cup {Append(s, c) : s \in shorter, c \in S}

AllTexts == SeqsUpTo(Chars, MaxLen)


----------------------------------------------------------------------------
(* The store: values of `threads`, and the file that holds them *)

\* threads[key] when the key is not in the object (undefined)
Absent == [kind |-> "absent", str |-> 0, thread_id |-> 0, prompt_version |-> ""]

\* a bare handle string, as the unversioned build wrote it
Str(h) == [kind |-> "string", str |-> h, thread_id |-> 0, prompt_version |-> ""]

\* { thread_id, prompt_version }
Obj(t, v) == [kind |-> "object", str |-> 0, thread_id |-> t, prompt_version |-> v]

\* mutant: the ids are joined without the colon
getThreadKey_NoSeparator(chatId, userId) == ToString(chatId) \o ToString(userId)

\* `${chatId}:${userId}`
getThreadKey(chatId, userId) == ToString(chatId) \o ":" \o ToString(userId)

\* the property names `threads` is asked for
Keys == {getThreadKey(p[1], p[2]) : p \in AllPairs}

\* the keys an earlier process has served
OldKeys == {getThreadKey(c, w) : c \in ChatIds, w \in UserIds}

\* let threads = {}
EmptyStore == [k \in Keys |-> Absent]

\* threads when it is null: reading a property of it throws a TypeError
Null == [kind |-> "null", str |-> 0, thread_id |-> 0, prompt_version |-> ""]

NullStore == [k \in Keys |-> Null]

NoFile == [exists |-> FALSE, kind |-> "none", entries |-> {}]

GarbageFile == [exists |-> TRUE, kind |-> "garbage", entries |-> {}]

\* a file holding the JSON text `null`: it parses, and not to an object
NullFile == [exists |-> TRUE, kind |-> "null", entries |-> {}]

\* JSON.stringify(threads, null, 2): the own properties of the object, as text
JSONstringify(store) ==
  {<<k, store[k]>> : k \in {j \in Keys : store[j].kind # "absent"}}

\* JSON.parse of an object text: the object with those properties
JSONparse(entries) ==
  [k \in Keys |->
     IF \E e \in entries : e[1] = k
     THEN (CHOOSE e \in entries : e[1] = k)[2]
     ELSE Absent]

\* mutant: only the record of one key is written
saveThreads_FirstOnly(store) ==
  [exists |-> TRUE, kind |-> "object",
   entries |-> {e \in JSONstringify(store) : e[1] = getThreadKey(1, 1)}]

\* saveThreads: fs.writeFileSync overwrites the whole file
saveThreads(store) ==
  [exists |-> TRUE, kind |-> "object", entries |-> JSONstringify(store)]

\* mutant: the file is left as it was found
resetThreadsFile_Keep(f) == f

\* the one-time reset after deploy: unlink the file when it exists
resetThreadsFile(f) == IF f.exists THEN NoFile ELSE f

\* the load block: {} when the file is missing or JSON.parse throws, and
\* whatever JSON.parse returns otherwise
loadThreads(f) ==
  IF ~f.exists THEN EmptyStore
  ELSE IF f.kind = "object" THEN JSONparse(f.entries)
  ELSE IF f.kind = "null" THEN NullStore
  ELSE EmptyStore

\* the handle a key had before this process started
OldHandle(k) == CHOOSE c \in ChatIds : \E w \in UserIds : getThreadKey(c, w) = k

OldHandles == {OldHandle(k) : k \in OldKeys}

\* what an earlier process, of this or an older build, may have left under a key
OldValues(k) ==
  IF k \notin OldKeys THEN {Absent}
  ELSE {Absent, Str(OldHandle(k)), Obj(OldHandle(k), PROMPT_VERSION)}
         \cup {Obj(OldHandle(k), v) : v \in OldVersions}

LoadableStores == {s \in [Keys -> UNION {OldValues(k) : k \in Keys}] :
                     \A k \in Keys : s[k] \in OldValues(k)}

InitialFiles == {NoFile, GarbageFile, NullFile} \cup {saveThreads(s) : s \in LoadableStores}

\* the upstream threads that exist when the process starts
OldHistory == [t \in 1..Cardinality(OldHandles) |-> <<>>]

----------------------------------------------------------------------------
(* getOrCreateThread: the reuse test *)

\* mutant: a stored record is never reused
getOrCreateThreadHit_Never(existing) == FALSE

\* mutant: a stored record is reused whatever its version
getOrCreateThreadHit_AnyVersion(existing) ==
  /\ existing.kind = "object"
  /\ existing.thread_id # 0

\* mutant: any stored value is reused, as `if (threads[key])` of the unversioned build
getOrCreateThreadHit_Truthy(existing) == existing.kind # "absent"

\* existing && existing.thread_id && existing.prompt_version === PROMPT_VERSION
getOrCreateThreadHit(existing) ==
  /\ existing.kind # "absent"
  /\ existing.kind = "object"
  /\ existing.thread_id # 0
  /\ existing.prompt_version = PROMPT_VERSION

----------------------------------------------------------------------------
(* Inbound updates and the gate of the webhook handler *)

\* req.body without a message (or without a body at all)
NoMessage ==
  [message |-> FALSE, text |-> <<>>, chat |-> FALSE, chatId |-> 0,
   chatType |-> "", userId |-> 0]

\* a message with a text and no chat object: message.chat.id throws
NoChat(txt) ==
  [message |-> TRUE, text |-> txt, chat |-> FALSE, chatId |-> 0,
   chatType |-> "", userId |-> 0]

\* a message; text <<>> stands for a missing or empty text, which are both falsy
Message(txt, c, ty, w) ==
  [message |-> TRUE, text |-> txt, chat |-> TRUE, chatId |-> c,
   chatType |-> ty, userId |-> w]

UpdateBodies(texts) ==
  {NoMessage, NoChat(<<"h">>)}
    \cup {Message(txt, c, ChatType(c), w) :
            txt \in texts \cup {<<>>}, c \in ChatIds, w \in UserIds}

\* one update of each kind the handler tells apart: no message, no chat, no
\* text, a private text, a group text without and with the mention
SampleBodies ==
  { NoMessage, NoChat(<<"h">>), Message(<<>>, 1, ChatType(1), 1),
    Message(<<"h">>, 1, ChatType(1), 1), Message(<<"h">>, 2, ChatType(2), 1),
    Message(<<"@", "B", " ", "h">>, 2, ChatType(2), 1) }

Skip == [outcome |-> "skip", chatId |-> 0, userId |-> 0, text |-> <<>>]

Throw == [outcome |-> "throw", chatId |-> 0, userId |-> 0, text |-> <<>>]

\* mutant: the mention is replaced in private chats too
forwardedText_ReplaceAlways(b) == trim(replace(trim(b.text), mention))

\* the text handed to runAssistant: trimmed, and outside private chats with the
\* mention replaced by "" and trimmed again
forwardedText(b) ==
  IF b.chatType = "private" THEN trim(b.text)
  ELSE trim(replace(trim(b.text), mention))

\* mutant: no mention is asked for outside private chats
gate_NoMentionCheck(b) ==
  IF ~b.message \/ b.text = <<>> THEN Skip
  ELSE IF ~b.chat THEN Throw
  ELSE [outcome |-> "dispatch", chatId |-> b.chatId, userId |-> b.userId,
        text |-> forwardedText(b)]

\* the handler from `const message = req.body?.message` to the call of runAssistant
gate(b) ==
  IF ~b.message \/ b.text = <<>> THEN Skip
  ELSE IF ~b.chat THEN Throw
  ELSE IF b.chatType # "private" /\ ~includes(trim(b.text), mention) THEN Skip
  ELSE [outcome |-> "dispatch", chatId |-> b.chatId, userId |-> b.userId,
        text |-> forwardedText(b)]

----------------------------------------------------------------------------
(* The task of one update *)

NoErr == [at |-> "", status |-> ""]

NewTask ==
  [pc |-> "new", body |-> NoMessage, ack |-> 0, key |-> "", text |-> <<>>,
   threadId |-> 0, reply |-> <<>>, events |-> <<>>, err |-> NoErr,
   created |-> 0, wrote |-> 0, prior |-> 0, existing |-> Absent]

\* catch (err) { console.error("Webhook error:", err) }: the task ends, logged
catchError(t, where, status) ==
  [t EXCEPT !.pc = "failed", !.err = [at |-> where, status |-> status],
            !.events = Append(@, "log")]

\* the async task up to its first await that yields: the gate, the lookup of
\* getOrCreateThread and the request it leads to
asyncTask(acked, b, store, last) ==
  LET g == gate(b)
      key == getThreadKey(g.chatId, g.userId)
  IN  CASE g.outcome = "skip" -> [acked EXCEPT !.pc = "skipped"]
        [] g.outcome = "throw" -> catchError(acked, "gate", "")
        [] OTHER ->
             LET called == [acked EXCEPT !.key = key, !.text = g.text,
                                         !.existing = store[key],
                                         !.prior = last[key]]
             IN  IF store[key].kind = "null"
                 THEN catchError([acked EXCEPT !.key = key, !.text = g.text],
                                 "lookup", "")
                 ELSE IF getOrCreateThreadHit(store[key])
                      THEN [called EXCEPT !.pc = "appending",
                                          !.threadId = store[key].thread_id,
                                          !.events = Append(@, "append")]
                      ELSE [called EXCEPT !.pc = "creating", !.created = @ + 1,
                                          !.events = Append(@, "create")]

\* mutant: the handler starts the task and answers only when it has ended
webhook_AckLater(t, b, store, last) ==
  asyncTask([t EXCEPT !.body = b], b, store, last)

\* the route handler: res.sendStatus(200), then the async task is started
webhook(t, b, store, last) ==
  asyncTask([t EXCEPT !.body = b, !.ack = 200, !.events = <<"ack">>], b, store, last)

----------------------------------------------------------------------------
(* Upstream messages and the reply runAssistant extracts *)

TextItem(v) == [type |-> "text", value |-> v]

ImageItem == [type |-> "image_file", value |-> <<>>]

\* messages.create(threadId, { role: "user", content: userText })
UserMsg(u, txt) == [role |-> "user", content |-> <<TextItem(txt)>>, by |-> u]

AsstMsg(u, content) == [role |-> "assistant", content |-> content, by |-> u]

\* the text the run of update u writes
R(u) == <<"r", ToString(u)>>

\* what a completed run may add to its thread: nothing, or one assistant message
RunOutputs(u) == {<<>>, <<AsstMsg(u, <<TextItem(R(u))>>)>>}

\* the statuses createAndPoll returns with
RunStatuses == {"completed", "failed", "expired"}

Min(a, b) == IF a <= b THEN a ELSE b

\* mutant: the list is asked for oldest first
list_Ascending(h, limit) == [i \in 1..Min(Len(h), limit) |-> h[i]]

\* messages.list(threadId, { limit: 5 }): the latest messages, most recent first
list(h, limit) == [i \in 1..Min(Len(h), limit) |-> h[Len(h) + 1 - i]]

\* messages.data.find((m) => m.role === "assistant"): its index, 0 when none
find(data) ==
  IF \E i \in 1..Len(data) : data[i].role = "assistant"
  THEN Least({i \in 1..Len(data) : data[i].role = "assistant"})
  ELSE 0

\* assistantMessage?.content?.[0]?.text?.value || "No response."
replyText(data) ==
  LET i == find(data)
  IN  IF i = 0 THEN NoResponse
      ELSE IF data[i].content = <<>> THEN NoResponse
      ELSE IF data[i].content[1].type # "text" THEN NoResponse
      ELSE IF data[i].content[1].value = <<>> THEN NoResponse
      ELSE data[i].content[1].value

----------------------------------------------------------------------------
(* Startup *)

\* the file holds, for every key, a record getOrCreateThread would reuse
Reusable(f) ==
  /\ f.exists /\ f.kind = "object"
  /\ \A k \in OldKeys : getOrCreateThreadHit(JSONparse(f.entries)[k])

\* lines 15-61: the reset, the environment check, the load, then `await fetch`
Boot ==
  /\ proc = "boot"
  /\ file' = resetThreadsFile(file)
  /\ IF envOk
     THEN /\ threads' = loadThreads(file')
          /\ proc' = "registering"
     ELSE /\ proc' = "exited"
          /\ UNCHANGED threads
  /\ UNCHANGED <<envOk, history, tasks, sent, lastResolved, cleared>>

\* setWebhook answered: the routes are added and the server listens
Registered ==
  /\ proc = "registering"
  /\ proc' = "listening"
  /\ UNCHANGED <<envOk, file, threads, history, tasks, sent, lastResolved, cleared>>

\* the top-level `await fetch` rejects: the module fails to load
RegisterFailed ==
  /\ proc = "registering"
  /\ proc' = "crashed"
  /\ UNCHANGED <<envOk, file, threads, history, tasks, sent, lastResolved, cleared>>

----------------------------------------------------------------------------
(* The webhook handler and the continuations of its task *)

Awaiting == {"creating", "appending", "running", "listing", "sending"}

\* mutant: no catch, the rejection of the task is unhandled and ends the process
tryCatch_Unhandled(u, after) ==
  /\ tasks' = [tasks EXCEPT ![u] = after]
  /\ proc' = IF after.pc = "failed" THEN "crashed" ELSE proc

\* the try/catch around the task: an error ends the task and nothing else
tryCatch(u, after) ==
  /\ tasks' = [tasks EXCEPT ![u] = after]
  /\ proc' = proc

\* POST /webhook/<secret>: updates arrive in the order of their numbers
Receive(u, b) ==
  /\ proc = "listening"
  /\ tasks[u].pc = "new"
  /\ \A w \in Updates : w < u => tasks[w].pc # "new"
  /\ tryCatch(u, webhook(tasks[u], b, threads, lastResolved))
  /\ lastResolved' =
       IF tasks'[u].pc = "appending"
       THEN [lastResolved EXCEPT ![tasks'[u].key] = tasks'[u].threadId]
       ELSE lastResolved
  /\ UNCHANGED <<envOk, file, threads, history, sent, cleared>>

\* threads.create() answered: store the record, save, go on to messages.create
created(t, id) ==
  [t EXCEPT !.pc = "appending", !.threadId = id, !.wrote = @ + 1,
            !.events = Append(@, "append")]

\* mutant: the write replaces the mapping by one that holds the new record only
stored_Alone(store, key, id) == [EmptyStore EXCEPT ![key] = Obj(id, PROMPT_VERSION)]

\* mutant: a record of the active version is not overwritten
stored_KeepFirst(store, key, id) ==
  IF getOrCreateThreadHit(store[key]) THEN store
  ELSE [store EXCEPT ![key] = Obj(id, PROMPT_VERSION)]

\* threads[key] = { thread_id: thread.id, prompt_version: PROMPT_VERSION }
stored(store, key, id) == [store EXCEPT ![key] = Obj(id, PROMPT_VERSION)]

CreateDone(u) ==
  LET id == Len(history) + 1
      key == tasks[u].key
  IN  /\ proc = "listening"
      /\ tasks[u].pc = "creating"
      /\ history' = Append(history, <<>>)
      /\ threads' = stored(threads, key, id)
      /\ file' = saveThreads(threads')
      /\ tasks' = [tasks EXCEPT ![u] = created(@, id)]
      /\ lastResolved' = [lastResolved EXCEPT ![key] = id]
      /\ UNCHANGED <<proc, envOk, sent, cleared>>

\* messages.create answered: the user turn is in the thread; createAndPoll starts
AppendDone(u) ==
  LET id == tasks[u].threadId
  IN  /\ proc = "listening"
      /\ tasks[u].pc = "appending"
      /\ history' = [history EXCEPT ![id] = Append(@, UserMsg(u, tasks[u].text))]
      /\ tasks' = [tasks EXCEPT ![u].pc = "running", ![u].events = Append(@, "run")]
      /\ UNCHANGED <<proc, envOk, file, threads, sent, lastResolved, cleared>>

\* mutant: the error does not carry the status
polled_NoStatus(t, status) ==
  IF status # "completed" THEN catchError(t, "status", "")
  ELSE [t EXCEPT !.pc = "listing", !.events = Append(@, "list")]

\* if (run.status !== "completed") throw new Error(`Assistant run failed: ${run.status}`)
polled(t, status) ==
  IF status # "completed" THEN catchError(t, "status", status)
  ELSE [t EXCEPT !.pc = "listing", !.events = Append(@, "list")]

\* createAndPoll answered with a run in `status`, which wrote `out` to the thread
RunDone(u, status, out) ==
  LET id == tasks[u].threadId
  IN  /\ proc = "listening"
      /\ tasks[u].pc = "running"
      /\ history' = [history EXCEPT ![id] = IF status = "completed" THEN @ \o out ELSE @]
      /\ tryCatch(u, polled(tasks[u], status))
      /\ UNCHANGED <<envOk, file, threads, sent, lastResolved, cleared>>

\* messages.list answered: runAssistant returns, bot.sendMessage starts
ListDone(u) ==
  /\ proc = "listening"
  /\ tasks[u].pc = "listing"
  /\ tasks' = [tasks EXCEPT ![u].pc = "sending",
                            ![u].reply = replyText(list(history[tasks[u].threadId], ListLimit)),
                            ![u].events = Append(@, "send")]
  /\ UNCHANGED <<proc, envOk, file, threads, history, sent, lastResolved, cleared>>

\* bot.sendMessage(chatId, reply, { reply_to_message_id: message.message_id })
SendDone(u) ==
  /\ proc = "listening"
  /\ tasks[u].pc = "sending"
  /\ sent' = sent \cup {[chat_id |-> tasks[u].body.chatId, text |-> tasks[u].reply,
                         reply_to_message_id |-> u]}
  /\ tasks' = [tasks EXCEPT ![u].pc = "done"]
  /\ UNCHANGED <<proc, envOk, file, threads, history, lastResolved, cleared>>

\* mutant: a rejected threads.create is tried once more
rejected_Retry(t) ==
  IF t.pc = "creating" /\ t.created < 2
  THEN [t EXCEPT !.created = @ + 1, !.events = Append(@, "create")]
  ELSE catchError(t, t.pc, "")

\* the awaited call of the task rejects: the catch of the task logs it
rejected(t) == catchError(t, t.pc, "")

Reject(u) ==
  /\ proc = "listening"
  /\ tasks[u].pc \in Awaiting
  /\ tryCatch(u, rejected(tasks[u]))
  /\ UNCHANGED <<envOk, file, threads, history, sent, lastResolved, cleared>>

----------------------------------------------------------------------------
(* The program *)

Init ==
  /\ proc = "boot"
  /\ envOk \in BOOLEAN
  /\ file \in InitialFiles
  /\ threads = EmptyStore
  /\ history = OldHistory
  /\ tasks = [u \in Updates |-> NewTask]
  /\ sent = {}
  /\ lastResolved = [k \in Keys |-> 0]
  /\ cleared = FALSE

Handle(bodies) ==
  \/ \E u \in Updates, b \in bodies : Receive(u, b)
  \/ \E u \in Updates : CreateDone(u)
  \/ \E u \in Updates : AppendDone(u)
  \/ \E u \in Updates, s \in RunStatuses : \E out \in RunOutputs(u) : RunDone(u, s, out)
  \/ \E u \in Updates : ListDone(u)
  \/ \E u \in Updates : SendDone(u)
  \/ \E u \in Updates : Reject(u)

Next == Boot \/ Registered \/ RegisterFailed \/ Handle(SampleBodies)

Spec == Init /\ [][Next]_vars

(* The program under the scheduling the code has: a continuation whose     *)
(* awaited request has settled runs, and every request but the polling of  *)
(* a run settles, by an answer or a rejection (the clients time out a      *)
(* single request).  createAndPoll polls until the run leaves the states   *)
(* queued and in_progress, with no limit on the number of polls, so no     *)
(* fairness is stated for RunDone or for a rejection while polling.        *)

Settles(u) ==
  \/ CreateDone(u)
  \/ AppendDone(u)
  \/ ListDone(u)
  \/ SendDone(u)
  \/ tasks[u].pc # "running" /\ Reject(u)

SpecFair == Spec /\ \A u \in Updates : WF_vars(Settles(u))

----------------------------------------------------------------------------
(* getOrCreateThread over every store the load block can yield: the process *)
(* listens, and `threads` holds what a file of an earlier process decodes to *)

InitStore ==
  /\ proc = "listening"
  /\ envOk = TRUE
  /\ threads \in LoadableStores
  /\ file = saveThreads(threads)
  /\ history = OldHistory
  /\ tasks = [u \in Updates |-> NewTask]
  /\ sent = {}
  /\ lastResolved = [k \in Keys |-> 0]
  /\ cleared = FALSE

MentionBodies ==
  {Message(<<"@", "B", " ", "h">>, c, ChatType(c), w) : c \in ChatIds, w \in UserIds}

\* the calls of getOrCreateThread: the lookup, and the answer of threads.create
NextStore ==
  \/ \E u \in Updates, b \in MentionBodies : Receive(u, b)
  \/ \E u \in Updates : CreateDone(u)
  \/ \E u \in Updates : Reject(u)

SpecStore == InitStore /\ [][NextStore]_vars

(* The start of the process from every file, then getOrCreateThread: what *)
(* the file held is recorded, to tell the starts that removed a record    *)

InitStart ==
  /\ proc = "boot"
  /\ envOk \in BOOLEAN
  /\ file \in InitialFiles
  /\ threads = EmptyStore
  /\ history = OldHistory
  /\ tasks = [u \in Updates |-> NewTask]
  /\ sent = {}
  /\ lastResolved = [k \in Keys |-> 0]
  /\ cleared = Reusable(file)

NextStart == Boot \/ Registered \/ RegisterFailed \/ NextStore

SpecStart == InitStart /\ [][NextStart]_vars

(* The load block over every file it can find, as in a process that does  *)
(* not remove the file first (src/index.js has no reset before its load)  *)

\* lines 53-61 alone
Load ==
  /\ proc = "loading"
  /\ threads' = loadThreads(file)
  /\ proc' = "listening"
  /\ UNCHANGED <<envOk, file, history, tasks, sent, lastResolved, cleared>>

InitLoad ==
  /\ proc = "loading"
  /\ envOk = TRUE
  /\ file \in InitialFiles
  /\ threads = EmptyStore
  /\ history = OldHistory
  /\ tasks = [u \in Updates |-> NewTask]
  /\ sent = {}
  /\ lastResolved = [k \in Keys |-> 0]
  /\ cleared = FALSE

NextLoad == Load \/ NextStore

SpecLoad == InitLoad /\ [][NextLoad]_vars

(* getOrCreateThread and the append of the user turn for updates of every  *)
(* pair, in a started process                                              *)

PairBodies ==
  {Message(<<"@", "B", " ", "h">>, p[1], ChatType(p[1]), p[2]) : p \in AllPairs}

InitPairs ==
  /\ proc = "listening"
  /\ envOk = TRUE
  /\ threads = EmptyStore
  /\ file = NoFile
  /\ history = OldHistory
  /\ tasks = [u \in Updates |-> NewTask]
  /\ sent = {}
  /\ lastResolved = [k \in Keys |-> 0]
  /\ cleared = FALSE

NextPairs ==
  \/ \E u \in Updates, b \in PairBodies : Receive(u, b)
  \/ \E u \in Updates : CreateDone(u)
  \/ \E u \in Updates : AppendDone(u)
  \/ \E u \in Updates : Reject(u)

SpecPairs == InitPairs /\ [][NextPairs]_vars

(* The gate over every text of at most MaxLen characters *)

InitGate ==
  /\ proc = "listening"
  /\ envOk = TRUE
  /\ threads = EmptyStore
  /\ file = NoFile
  /\ history = OldHistory
  /\ tasks = [u \in Updates |-> NewTask]
  /\ sent = {}
  /\ lastResolved = [k \in Keys |-> 0]
  /\ cleared = FALSE

NextGate == \E b \in UpdateBodies(AllTexts) : Receive(1, b)

SpecGate == InitGate /\ [][NextGate]_vars

(* The reply extraction over every content a thread of at most MaxHistory *)
(* messages can have when messages.list answers                            *)

ThreadMessages ==
  { UserMsg(1, <<"h">>),
    AsstMsg(1, <<TextItem(R(1))>>), AsstMsg(2, <<TextItem(R(2))>>),
    AsstMsg(1, <<ImageItem>>), AsstMsg(1, <<>>), AsstMsg(1, <<TextItem(<<>>)>>) }

Listing ==
  [NewTask EXCEPT !.pc = "listing", !.body = Message(<<"h">>, 1, "private", 1),
                  !.ack = 200, !.key = getThreadKey(1, 1), !.text = <<"h">>,
                  !.threadId = 1, !.created = 1, !.wrote = 1,
                  !.events = <<"ack", "create", "append", "run", "list">>]

InitReply ==
  /\ proc = "listening"
  /\ envOk = TRUE
  /\ threads = [EmptyStore EXCEPT ![getThreadKey(1, 1)] = Obj(1, PROMPT_VERSION)]
  /\ file = saveThreads(threads)
  /\ \E h \in SeqsUpTo(ThreadMessages, MaxHistory) : history = <<h>>
  /\ tasks = [u \in Updates |-> IF u = 1 THEN Listing ELSE NewTask]
  /\ sent = {}
  /\ lastResolved = [k \in Keys |-> IF k = getThreadKey(1, 1) THEN 1 ELSE 0]
  /\ cleared = FALSE

NextReply == \E u \in Updates : ListDone(u)

SpecReply == InitReply /\ [][NextReply]_vars

----------------------------------------------------------------------------
(* Claims *)

Dispatched(u) == tasks[u].pc \notin {"new", "skipped"} /\ tasks[u].err.at # "gate"

Resolved(u) == tasks[u].threadId # 0

\* C1: a getOrCreateThread call for a key that follows a completed call for the
\* same key returns the handle that call returned, makes no threads.create call
\* and does not write the file; no call writes the file more than once.
C1_SecondResolveIsCacheHit ==
  \A u \in Updates :
    /\ tasks[u].wrote <= 1
    /\ Dispatched(u) /\ tasks[u].prior # 0 =>
         /\ tasks[u].threadId = tasks[u].prior
         /\ tasks[u].created = 0
         /\ tasks[u].wrote = 0

C1_Witness ==
  \E u, v \in Updates :
    /\ u # v /\ tasks[u].key = tasks[v].key
    /\ tasks[u].created = 1 /\ tasks[u].wrote = 1
    /\ tasks[v].prior = tasks[u].threadId /\ tasks[v].threadId = tasks[u].threadId
    /\ tasks[v].created = 0

\* C2: getOrCreateThread never returns the handle of a record tagged with another
\* version: a call that finds such a record requests a new thread and returns a
\* handle different from the stale one, and once a call has returned, the store
\* and the file hold one record for the key, tagged with the active version and
\* holding the handle returned last for the key.
C2_NeverReuseOtherVersion ==
  \A u \in Updates :
    Resolved(u) =>
      LET k == tasks[u].key
          found == tasks[u].existing
      IN  /\ tasks[u].created = 0 =>
               /\ found.kind = "object"
               /\ found.prompt_version = PROMPT_VERSION
               /\ found.thread_id = tasks[u].threadId
          /\ found.kind = "object" /\ found.prompt_version # PROMPT_VERSION =>
               /\ tasks[u].created = 1
               /\ tasks[u].threadId # found.thread_id
               /\ tasks[u].threadId \notin OldHandles
          /\ threads[k] = Obj(lastResolved[k], PROMPT_VERSION)
          /\ {e \in file.entries : e[1] = k} = {<<k, Obj(lastResolved[k], PROMPT_VERSION)>>}
          /\ lastResolved[k] = tasks[u].threadId \/
               \E v \in Updates : v # u /\ tasks[v].key = k /\ lastResolved[k] = tasks[v].threadId

C2_Witness ==
  \E u \in Updates :
    /\ Resolved(u)
    /\ tasks[u].existing.kind = "object"
    /\ tasks[u].existing.prompt_version \in OldVersions
    /\ tasks[u].threadId # tasks[u].existing.thread_id
    /\ threads[tasks[u].key] = Obj(tasks[u].threadId, PROMPT_VERSION)

\* C3: the handler answers 200 before any other step of the update, and the
\* answer is 200 whether the update ends replied, skipped or failed.
C3_AckFirst ==
  \A u \in Updates :
    tasks[u].pc # "new" =>
      /\ tasks[u].ack = 200
      /\ tasks[u].events # <<>>
      /\ Head(tasks[u].events) = "ack"
      /\ \A i \in 2..Len(tasks[u].events) : tasks[u].events[i] # "ack"

C3_Witness ==
  \E u, v \in Updates :
    /\ tasks[u].pc = "done" /\ tasks[u].ack = 200
    /\ tasks[v].pc = "failed" /\ tasks[v].ack = 200
    /\ Len(tasks[u].events) > 1 /\ Len(tasks[v].events) > 1

Fails(u) == tasks[u].pc # "failed" /\ tasks'[u].pc = "failed"

\* C4: a step in which the task of an update fails leaves the process listening
\* and changes nothing but that task: not the task of another update, not the
\* store, not the file, not the threads, not the replies sent.
C4_FailureIsConfined ==
  [][\A u \in Updates :
       Fails(u) =>
         /\ proc' = "listening"
         /\ \A v \in Updates \ {u} : tasks'[v] = tasks[v]
         /\ threads' = threads
         /\ file' = file
         /\ history' = history
         /\ sent' = sent]_vars

C4_Witness ==
  \E u, v \in Updates :
    /\ tasks[u].pc = "failed" /\ tasks[u].err.at = "gate"
    /\ tasks[v].pc = "done"
    /\ u < v
    /\ proc = "listening"

HasTurn(u, t) == \E i \in 1..Len(history[t]) : history[t][i] = UserMsg(u, tasks[u].text)

Replied(u) == \E m \in sent : m.reply_to_message_id = u

RunFailed(u) == tasks[u].pc = "failed" /\ tasks[u].err.at = "status"

\* C5 as stated: after a run that did not complete, converse has failed with the
\* status, no reply is sent, the user turn is in the thread, and the record of
\* the key still holds the handle of that thread for the next converse.
C5_RunFailureKeepsHandle ==
  \A u \in Updates :
    RunFailed(u) =>
      /\ tasks[u].err.status \in RunStatuses \ {"completed"}
      /\ ~Replied(u)
      /\ HasTurn(u, tasks[u].threadId)
      /\ threads[tasks[u].key] = Obj(tasks[u].threadId, PROMPT_VERSION)

\* C5 amended: the record of the key holds the handle of that thread unless
\* a getOrCreateThread call of another update for the same key returned another
\* handle since; the failing step itself leaves the store and the file as they were.
C5_RunFailureKeepsRecord ==
  /\ [](\A u \in Updates :
         RunFailed(u) =>
           /\ tasks[u].err.status \in RunStatuses \ {"completed"}
           /\ ~Replied(u)
           /\ HasTurn(u, tasks[u].threadId)
           /\ threads[tasks[u].key].kind = "object"
           /\ threads[tasks[u].key].prompt_version = PROMPT_VERSION
           /\ lastResolved[tasks[u].key] = tasks[u].threadId =>
                threads[tasks[u].key].thread_id = tasks[u].threadId)
  /\ [][\A u \in Updates :
          Fails(u) /\ RunFailed(u)' => threads' = threads /\ file' = file]_vars

C5_Witness ==
  \E u, v \in Updates :
    /\ RunFailed(u)
    /\ tasks[v].prior = tasks[u].threadId
    /\ tasks[v].threadId = tasks[u].threadId
    /\ tasks[v].pc = "done"
    /\ HasTurn(u, tasks[v].threadId)

CreateFailed(u) == tasks[u].pc = "failed" /\ tasks[u].err.at = "creating"

\* C6: when threads.create rejects, the task ends logged after that one call:
\* it has no handle, wrote nothing, appended no turn and sent no reply, and
\* neither the step that makes the call nor the step that fails changes the
\* store, the file or a thread.
C6_CreateFailureChangesNothing ==
  /\ [](\A u \in Updates :
         CreateFailed(u) =>
           /\ tasks[u].events = <<"ack", "create", "log">>
           /\ tasks[u].created = 1
           /\ tasks[u].wrote = 0
           /\ tasks[u].threadId = 0
           /\ \A t \in 1..Len(history) : ~HasTurn(u, t)
           /\ ~Replied(u))
  /\ [][\A u \in Updates :
          \/ tasks[u].pc = "new" /\ tasks'[u].pc = "creating"
          \/ Fails(u) /\ CreateFailed(u)'
          => threads' = threads /\ file' = file /\ history' = history]_vars

C6_Witness ==
  \E u, v \in Updates :
    /\ CreateFailed(u)
    /\ tasks[v].key = tasks[u].key /\ tasks[v].pc = "done"
    /\ threads[tasks[u].key] = Obj(tasks[v].threadId, PROMPT_VERSION)

Greatest(S) == CHOOSE i \in S : \A j \in S : j <= i

\* the assistant-authored messages among the latest ListLimit messages of h
LatestAssistant(h) ==
  {i \in 1..Len(h) : i > Len(h) - ListLimit /\ h[i].role = "assistant"}

\* the first content item of m is a text item with a non-empty value
CarriesText(m) ==
  m.content # <<>> /\ m.content[1].type = "text" /\ m.content[1].value # <<>>

\* C7: when messages.list has answered, the reply is the text of the most recent
\* assistant message among the latest 5 messages of the thread, and the fixed
\* fallback when there is none there or it carries no text; the task has not failed.
C7_ReplyIsLatestAssistantText ==
  \A u \in Updates :
    /\ tasks[u].pc # "failed"
    /\ tasks[u].pc = "sending" =>
         LET h == history[tasks[u].threadId]
             A == LatestAssistant(h)
         IN  IF A # {} /\ CarriesText(h[Greatest(A)])
             THEN tasks[u].reply = h[Greatest(A)].content[1].value
             ELSE tasks[u].reply = NoResponse

C7_Witness ==
  \E u \in Updates :
    LET h == history[tasks[u].threadId]
    IN  /\ tasks[u].pc = "sending"
        /\ Len(h) > ListLimit
        /\ h[1].role = "assistant" /\ CarriesText(h[1])
        /\ LatestAssistant(h) = {}
        /\ tasks[u].reply = NoResponse

\* the update has no text, or comes from a chat that is not private with a text
\* that does not contain the mention
NotAddressed(b) ==
  \/ ~b.message
  \/ b.text = <<>>
  \/ b.chat /\ b.chatType # "private" /\ ~includes(b.text, mention)

\* C8: an update without text, or from a chat that is not private without the
\* mention, is answered 200 and nothing else: no handle, no upstream call, no
\* write, no turn, no reply, no error.
C8_NotAddressedIsSkipped ==
  \A u \in Updates :
    tasks[u].pc # "new" /\ NotAddressed(tasks[u].body) =>
      /\ tasks[u].pc = "skipped"
      /\ tasks[u].events = <<"ack">>
      /\ tasks[u].err = NoErr
      /\ tasks[u].created = 0 /\ tasks[u].wrote = 0 /\ tasks[u].threadId = 0
      /\ \A t \in 1..Len(history) : \A i \in 1..Len(history[t]) : history[t][i].by # u
      /\ ~Replied(u)

C8_Witness ==
  \E u, v \in Updates :
    /\ tasks[u].pc = "skipped"
    /\ tasks[u].body.chatType = "group" /\ tasks[u].body.text # <<>>
    /\ tasks[v].pc = "done" /\ tasks[v].body.chatType = "group"
    /\ tasks[v].body.chatId = tasks[u].body.chatId

InGroup(u) == Dispatched(u) /\ tasks[u].body.chatType # "private"

InPrivate(u) == Dispatched(u) /\ tasks[u].body.chatType = "private"

\* C9: outside private chats the text handed to runAssistant contains no mention
\* and neither starts nor ends with whitespace.
C9_MentionRemoved ==
  \A u \in Updates :
    InGroup(u) =>
      /\ ~includes(tasks[u].text, mention)
      /\ tasks[u].text # <<>> => Head(tasks[u].text) # " " /\ tasks[u].text[Len(tasks[u].text)] # " "

\* C10 as stated: in a private chat the text handed to runAssistant is the text
\* of the update.
C10_PrivateUnchanged ==
  \A u \in Updates : InPrivate(u) => tasks[u].text = tasks[u].body.text

NonSpace(s) == {i \in 1..Len(s) : s[i] # " "}

\* C10 amended: in a private chat the text handed to runAssistant is the text of
\* the update from its first to its last character that is not whitespace, with
\* every mention in it kept.
C10_PrivateTrimmedOnly ==
  \A u \in Updates :
    InPrivate(u) =>
      LET s == tasks[u].body.text
      IN  IF NonSpace(s) = {} THEN tasks[u].text = <<>>
          ELSE tasks[u].text = SubSeq(s, Least(NonSpace(s)), Greatest(NonSpace(s)))

C10_Witness ==
  \E u \in Updates :
    /\ InPrivate(u)
    /\ Head(tasks[u].body.text) = " "
    /\ includes(tasks[u].body.text, mention)
    /\ includes(tasks[u].text, mention)
    /\ tasks[u].text # tasks[u].body.text

FoundLegacy(u) == Dispatched(u) /\ tasks[u].existing.kind = "string"

\* C11: a getOrCreateThread call that finds a bare handle string under its key
\* (the format of the unversioned build) requests a new thread; the handle it
\* returns is not the legacy handle, and once it has returned the store and the
\* file hold for the key one record tagged PROMPT_VERSION with the handle
\* returned last for the key.
C11_LegacyRecordIsStale ==
  \A u \in Updates :
    FoundLegacy(u) =>
      /\ tasks[u].created = 1
      /\ Resolved(u) =>
            LET k == tasks[u].key
            IN  /\ tasks[u].threadId # tasks[u].existing.str
                /\ tasks[u].threadId \notin OldHandles
                /\ tasks[u].wrote = 1
                /\ threads[k] = Obj(lastResolved[k], PROMPT_VERSION)
                /\ {e \in file.entries : e[1] = k} =
                     {<<k, Obj(lastResolved[k], PROMPT_VERSION)>>}

C11_Witness ==
  \E u \in Updates :
    /\ FoundLegacy(u) /\ Resolved(u)
    /\ tasks[u].existing = Str(OldHandle(tasks[u].key))
    /\ threads[tasks[u].key] = Obj(tasks[u].threadId, PROMPT_VERSION)
    /\ <<tasks[u].key, Obj(tasks[u].threadId, PROMPT_VERSION)>> \in file.entries
    /\ tasks[u].threadId # OldHandle(tasks[u].key)

\* C12: once the load block has run, `threads` is a mapping whatever the file
\* held, and no later getOrCreateThread call fails looking its key up.
C12_LoadYieldsMapping ==
  proc = "listening" =>
    /\ \A k \in Keys : threads[k].kind \in {"absent", "string", "object"}
    /\ \A u \in Updates : tasks[u].err.at # "lookup"

\* every record is one this process created
FreshRecords(store) ==
  \A k \in Keys :
    \/ store[k] = Absent
    \/ /\ store[k].kind = "object"
       /\ store[k].prompt_version = PROMPT_VERSION
       /\ store[k].thread_id \notin OldHandles

\* C13: the reset runs in the first step of every start, before the load and
\* whatever the file held: when the start is over the file is gone and the
\* store is empty, the store is empty until a getOrCreateThread call has
\* stored a record, no record ever holds a handle from before the start, and
\* the first getOrCreateThread call for a key finds nothing, requests a new
\* thread and returns its handle; the file is not removed again once written.
C13_ResetBeforeLoad ==
  /\ proc = "registering" => threads = EmptyStore /\ ~file.exists
  /\ proc # "boot" /\ (\A u \in Updates : tasks[u].wrote = 0) =>
       threads = EmptyStore /\ ~file.exists
  /\ proc # "boot" => FreshRecords(threads) /\ FreshRecords(loadThreads(file))
  /\ (\E u \in Updates : tasks[u].wrote > 0) => file.exists
  /\ \A u \in Updates :
       Dispatched(u) /\ tasks[u].prior = 0 =>
         /\ tasks[u].existing = Absent \/
              \E v \in Updates : v # u /\ tasks[v].key = tasks[u].key /\ tasks[v].wrote = 1
         /\ tasks[u].existing = Absent => tasks[u].created = 1
         /\ Resolved(u) => tasks[u].threadId \notin OldHandles

C13_Witness ==
  \E u \in Updates :
    /\ cleared
    /\ Dispatched(u) /\ tasks[u].prior = 0 /\ tasks[u].existing = Absent
    /\ Resolved(u) /\ tasks[u].created = 1
    /\ tasks[u].threadId # OldHandle(tasks[u].key)
    /\ threads[tasks[u].key] = Obj(tasks[u].threadId, PROMPT_VERSION)

\* C14: in every state between two steps of the started process (every await,
\* where another task may run), the file, when it exists, is the full encoding
\* of `threads` and decodes to it, and while there is no file `threads` is
\* empty: no task sees a record the file does not hold.
C14_FileEncodesStore ==
  proc # "boot" =>
    /\ file.exists => file = saveThreads(threads) /\ loadThreads(file) = threads
    /\ ~file.exists => threads = EmptyStore
    /\ \A u \in Updates :
         Resolved(u) =>
           \E e \in file.entries : e[1] = tasks[u].key /\ e[2] = threads[tasks[u].key]

C14_Witness ==
  \E u, v \in Updates :
    /\ tasks[u].wrote = 1 /\ tasks[v].wrote = 1
    /\ tasks[u].key # tasks[v].key
    /\ tasks[u].pc \in Awaiting /\ tasks[v].pc \in Awaiting
    /\ file.entries = {<<tasks[u].key, Obj(tasks[u].threadId, PROMPT_VERSION)>>,
                       <<tasks[v].key, Obj(tasks[v].threadId, PROMPT_VERSION)>>}
    /\ loadThreads(file) = threads

\* C15: a record is replaced only by a getOrCreateThread call for its own key:
\* once a call for a key has returned, the store and the file hold for that
\* key the record of a call for that key, whatever calls for other keys did
\* in between; with one call per key they hold the record of each.
C15_OtherKeysKeepRecords ==
  \A u \in Updates :
    Resolved(u) =>
      LET k == tasks[u].key
          writers == {v \in Updates : tasks[v].key = k /\ tasks[v].wrote = 1}
      IN  /\ threads[k].kind = "object"
          /\ threads[k].prompt_version = PROMPT_VERSION
          /\ \E v \in writers : threads[k].thread_id = tasks[v].threadId
          /\ writers = {u} => threads[k] = Obj(tasks[u].threadId, PROMPT_VERSION)
          /\ <<k, threads[k]>> \in file.entries
          /\ Cardinality({e \in file.entries : e[1] = k}) = 1

C15_Witness ==
  \E u, v \in Updates :
    /\ u < v /\ tasks[u].key # tasks[v].key
    /\ tasks[u].wrote = 1 /\ tasks[v].wrote = 1
    /\ tasks[v].threadId < tasks[u].threadId
    /\ threads[tasks[u].key] = Obj(tasks[u].threadId, PROMPT_VERSION)
    /\ threads[tasks[v].key] = Obj(tasks[v].threadId, PROMPT_VERSION)
    /\ <<tasks[u].key, threads[tasks[u].key]>> \in file.entries
    /\ <<tasks[v].key, threads[tasks[v].key]>> \in file.entries

\* the getOrCreateThread calls for key k that stored a record
Writers(k) == {v \in Updates : tasks[v].key = k /\ tasks[v].wrote = 1}

\* messages.create of the task of u has answered
Appended(u) ==
  \/ tasks[u].pc \in {"running", "listing", "sending", "done"}
  \/ tasks[u].pc = "failed" /\ tasks[u].err.at \in {"running", "status", "listing", "sending"}

\* C16: getOrCreateThread calls for one key that each found no valid record
\* each create a thread of their own; the store holds the handle stored last
\* and none stored before it, and the user turn of each task goes to the
\* thread the task created, whether or not the store still holds its handle.
C16_SameKeyRaceLastWriteWins ==
  /\ \A u, v \in Updates :
       u # v /\ tasks[u].key = tasks[v].key /\ tasks[u].wrote = 1 /\ tasks[v].wrote = 1 =>
         /\ tasks[u].threadId # tasks[v].threadId
         /\ tasks[u].threadId < tasks[v].threadId =>
              threads[tasks[u].key].thread_id # tasks[u].threadId
  /\ \A u \in Updates :
       tasks[u].wrote = 1 =>
         threads[tasks[u].key].thread_id =
           Greatest({tasks[v].threadId : v \in Writers(tasks[u].key)})
  /\ \A u \in Updates :
       Appended(u) =>
         \A t \in 1..Len(history) : HasTurn(u, t) <=> t = tasks[u].threadId

C16_Witness ==
  \E u, v \in Updates :
    /\ u # v /\ tasks[u].key = tasks[v].key
    /\ tasks[u].existing = Absent /\ tasks[v].existing = Absent
    /\ tasks[u].created = 1 /\ tasks[v].created = 1
    /\ tasks[u].wrote = 1 /\ tasks[v].wrote = 1
    /\ tasks[u].threadId < tasks[v].threadId
    /\ threads[tasks[u].key] = Obj(tasks[v].threadId, PROMPT_VERSION)
    /\ Appended(u) /\ HasTurn(u, tasks[u].threadId)
    /\ ~HasTurn(u, tasks[v].threadId)

\* C17: the task of every update the handler has received ends: replied,
\* skipped or failed with its error logged.
C17_TaskTerminates ==
  \A u \in Updates :
    (tasks[u].pc # "new") ~> (tasks[u].pc \in {"done", "skipped", "failed"})

\* C18: the process stops only when a required environment variable is
\* missing: with all of them present it is never exited or crashed.
C18_OnlyMissingConfigStops ==
  proc \in {"exited", "crashed"} => ~envOk

\* the (chat, user) pair the update of u comes from
Who(u) == <<tasks[u].body.chatId, tasks[u].body.userId>>

\* C19: distinct (chat, user) pairs have distinct keys; tasks of distinct pairs
\* hold distinct keys and distinct handles, the records of distinct keys hold
\* distinct handles, and the user turns of one thread all come from one pair,
\* the pair of a task that holds the handle of that thread.
C19_SessionsIsolated ==
  /\ \A p, q \in AllPairs :
       p # q => getThreadKey(p[1], p[2]) # getThreadKey(q[1], q[2])
  /\ \A u, v \in Updates :
       Dispatched(u) /\ Dispatched(v) /\ Who(u) # Who(v) =>
         /\ tasks[u].key # tasks[v].key
         /\ Resolved(u) /\ Resolved(v) => tasks[u].threadId # tasks[v].threadId
  /\ \A j, k \in Keys :
       j # k /\ threads[j].kind = "object" /\ threads[k].kind = "object" =>
         threads[j].thread_id # threads[k].thread_id
  /\ \A t \in 1..Len(history) :
       \A i \in 1..Len(history[t]) :
         /\ \A j \in 1..Len(history[t]) : Who(history[t][i].by) = Who(history[t][j].by)
         /\ tasks[history[t][i].by].threadId = t

C19_Witness ==
  \E u, v \in Updates :
    /\ tasks[u].body.chatId = tasks[v].body.chatId
    /\ tasks[u].body.userId # tasks[v].body.userId
    /\ Appended(u) /\ Appended(v)
    /\ tasks[u].threadId # tasks[v].threadId
    /\ history[tasks[u].threadId] = <<UserMsg(u, tasks[u].text)>>
    /\ history[tasks[v].threadId] = <<UserMsg(v, tasks[v].text)>>
    /\ threads[tasks[u].key] = Obj(tasks[u].threadId, PROMPT_VERSION)
    /\ threads[tasks[v].key] = Obj(tasks[v].threadId, PROMPT_VERSION)

\* C20: every reply is sent to the chat of its update, quoting it, after the
\* run of that update has completed and its messages were listed; it carries
\* the text that run wrote (the fallback when the reply found none), never
\* the text of the run of another update; an update gets at most one reply.
C20_ReplyCarriesOwnTurn ==
  /\ \A m \in sent :
       LET u == m.reply_to_message_id
       IN  /\ tasks[u].pc = "done"
           /\ m.chat_id = tasks[u].body.chatId
           /\ tasks[u].events = <<"ack", "create", "append", "run", "list", "send">>
                \/ tasks[u].events = <<"ack", "append", "run", "list", "send">>
           /\ m.text = R(u) \/ m.text = NoResponse
  /\ \A u \in Updates :
       Cardinality({m \in sent : m.reply_to_message_id = u}) <= 1

====
